---- MODULE Spec2Model ----
(***************************************************************************)
(* The incremental MD5 engine of FinalProject/md5.cpp (class MD5).         *)
(*                                                                         *)
(* Number representation.  TLC integers are 32-bit signed, so the C++      *)
(* fixed-width unsigned types are kept at their width as follows:          *)
(*   uint8_t   a number in 0..255                                          *)
(*   uint32_t  a pair <<hi, lo>> of 16-bit halves, value hi * 2^16 + lo    *)
(*   uint64_t  a tuple of 8 bytes, least significant byte first            *)
(* Arrays are sequences; C index i is TLA+ index i + 1.                    *)
(***************************************************************************)
EXTENDS Integers, Sequences, FiniteSets, TLC

(***************************************************************************)
(* uint32_t arithmetic                                                     *)
(***************************************************************************)
RECURSIVE AndBits(_, _, _)
AndBits(x, y, n) ==
  IF n = 0 THEN 0
  ELSE (x % 2) * (y % 2) + 2 * AndBits(x \div 2, y \div 2, n - 1)

\* x & y on bytes, tabulated once
AndByte == [x \in 0..255 |-> [y \in 0..255 |-> AndBits(x, y, 8)]]

And16(x, y) == AndByte[x \div 256][y \div 256] * 256 + AndByte[x % 256][y % 256]
Or16(x, y)  == x + y - And16(x, y)
Xor16(x, y) == x + y - 2 * And16(x, y)

\* x & y, x | y, x ^ y, ~x on uint32_t
And32(x, y) == <<And16(x[1], y[1]), And16(x[2], y[2])>>
Or32(x, y)  == <<Or16(x[1], y[1]), Or16(x[2], y[2])>>
Xor32(x, y) == <<Xor16(x[1], y[1]), Xor16(x[2], y[2])>>
Not32(x)    == <<65535 - x[1], 65535 - x[2]>>

\* x + y on uint32_t: addition modulo 2^32
Add32(x, y) ==
  <<(x[1] + y[1] + ((x[2] + y[2]) \div 65536)) % 65536, (x[2] + y[2]) % 65536>>

\* v << s and v >> s on uint32_t, for 0 <= s <= 32
Shl32(v, s) ==
  IF s >= 32 THEN <<0, 0>>
  ELSE IF s >= 16 THEN <<(v[2] % (2 ^ (32 - s))) * (2 ^ (s - 16)), 0>>
  ELSE <<(v[1] % (2 ^ (16 - s))) * (2 ^ s) + (v[2] \div (2 ^ (16 - s))),
         (v[2] % (2 ^ (16 - s))) * (2 ^ s)>>

Shr32(v, s) ==
  IF s >= 32 THEN <<0, 0>>
  ELSE IF s >= 16 THEN <<0, v[1] \div (2 ^ (s - 16))>>
  ELSE <<v[1] \div (2 ^ s),
         (v[1] % (2 ^ s)) * (2 ^ (16 - s)) + (v[2] \div (2 ^ s))>>

\* (uint32_t) of a byte, and (uint8_t) of a uint32_t
U32(byte) == <<0, byte>>
U8(v)     == v[2] % 256

(***************************************************************************)
(* uint64_t arithmetic (total_len_, bit_len)                               *)
(***************************************************************************)
RECURSIVE AddCarry(_, _, _)
\* bytes i..8 of x + n, n being the carry into byte i
AddCarry(x, n, i) ==
  IF i > 8 THEN <<>>
  ELSE <<(x[i] + n) % 256>> \o AddCarry(x, (x[i] + n) \div 256, i + 1)

\* x + n modulo 2^64, n a size_t within the model's bounds
Add64(x, n) == AddCarry(x, n, 1)

RECURSIVE MulCarry(_, _, _, _)
MulCarry(x, k, c, i) ==
  IF i > 8 THEN <<>>
  ELSE <<(x[i] * k + c) % 256>> \o MulCarry(x, k, (x[i] * k + c) \div 256, i + 1)

\* variant: each byte is multiplied on its own, nothing carried to the next
Mul64_noCarry(x, k) == [i \in 1..8 |-> (x[i] * k) % 256]

\* x * k modulo 2^64, k a small constant
Mul64(x, k) == MulCarry(x, k, 0, 1)

\* (uint8_t)((x >> (8 * i)) & 0xFF) on uint64_t
Byte64(x, i) == x[i + 1]

Zero64 == <<0, 0, 0, 0, 0, 0, 0, 0>>

(***************************************************************************)
(* MD5::transform and its helpers                                          *)
(***************************************************************************)
read_le32(p, off) ==
  Or32(Or32(U32(p[off + 1]), Shl32(U32(p[off + 2]), 8)),
       Or32(Shl32(U32(p[off + 3]), 16), Shl32(U32(p[off + 4]), 24)))

\* variant: most significant byte first
write_le32_bigEndian(v) ==
  << U8(And32(Shr32(v, 24), <<0, 255>>)),
     U8(And32(Shr32(v, 16), <<0, 255>>)),
     U8(And32(Shr32(v, 8), <<0, 255>>)),
     U8(And32(v, <<0, 255>>)) >>

write_le32(v) ==
  << U8(And32(v, <<0, 255>>)),
     U8(And32(Shr32(v, 8), <<0, 255>>)),
     U8(And32(Shr32(v, 16), <<0, 255>>)),
     U8(And32(Shr32(v, 24), <<0, 255>>)) >>

F(x, y, z) == Or32(And32(x, y), And32(Not32(x), z))
G(x, y, z) == Or32(And32(x, z), And32(y, Not32(z)))
H(x, y, z) == Xor32(Xor32(x, y), z)
I(x, y, z) == Xor32(y, Or32(x, Not32(z)))

\* variant: the bits shifted out are lost
rotl_shiftOnly(v, s) == Shl32(v, s)

rotl(v, s) == Or32(Shl32(v, s), Shr32(v, 32 - s))

\* Per-round shift amounts
S ==
  << 7,12,17,22, 7,12,17,22, 7,12,17,22, 7,12,17,22,
     5, 9,14,20, 5, 9,14,20, 5, 9,14,20, 5, 9,14,20,
     4,11,16,23, 4,11,16,23, 4,11,16,23, 4,11,16,23,
     6,10,15,21, 6,10,15,21, 6,10,15,21, 6,10,15,21 >>

\* Constants K[i] = floor(2^32 * abs(sin(i+1)))
K ==
  <<
    <<\hd76a, \ha478>>, <<\he8c7, \hb756>>, <<\h2420, \h70db>>, <<\hc1bd, \hceee>>, <<\hf57c, \h0faf>>, <<\h4787, \hc62a>>, <<\ha830, \h4613>>, <<\hfd46, \h9501>>,
    <<\h6980, \h98d8>>, <<\h8b44, \hf7af>>, <<\hffff, \h5bb1>>, <<\h895c, \hd7be>>, <<\h6b90, \h1122>>, <<\hfd98, \h7193>>, <<\ha679, \h438e>>, <<\h49b4, \h0821>>,
    <<\hf61e, \h2562>>, <<\hc040, \hb340>>, <<\h265e, \h5a51>>, <<\he9b6, \hc7aa>>, <<\hd62f, \h105d>>, <<\h0244, \h1453>>, <<\hd8a1, \he681>>, <<\he7d3, \hfbc8>>,
    <<\h21e1, \hcde6>>, <<\hc337, \h07d6>>, <<\hf4d5, \h0d87>>, <<\h455a, \h14ed>>, <<\ha9e3, \he905>>, <<\hfcef, \ha3f8>>, <<\h676f, \h02d9>>, <<\h8d2a, \h4c8a>>,
    <<\hfffa, \h3942>>, <<\h8771, \hf681>>, <<\h6d9d, \h6122>>, <<\hfde5, \h380c>>, <<\ha4be, \hea44>>, <<\h4bde, \hcfa9>>, <<\hf6bb, \h4b60>>, <<\hbebf, \hbc70>>,
    <<\h289b, \h7ec6>>, <<\heaa1, \h27fa>>, <<\hd4ef, \h3085>>, <<\h0488, \h1d05>>, <<\hd9d4, \hd039>>, <<\he6db, \h99e5>>, <<\h1fa2, \h7cf8>>, <<\hc4ac, \h5665>>,
    <<\hf429, \h2244>>, <<\h432a, \hff97>>, <<\hab94, \h23a7>>, <<\hfc93, \ha039>>, <<\h655b, \h59c3>>, <<\h8f0c, \hcc92>>, <<\hffef, \hf47d>>, <<\h8584, \h5dd1>>,
    <<\h6fa8, \h7e4f>>, <<\hfe2c, \he6e0>>, <<\ha301, \h4314>>, <<\h4e08, \h11a1>>, <<\hf753, \h7e82>>, <<\hbd3a, \hf235>>, <<\h2ad7, \hd2bb>>, <<\heb86, \hd391>>
  >>

\* variant: the second group masks its index with 7
MsgIndex_mask7(i) ==
  IF i < 16 THEN i
  ELSE IF i < 32 THEN And16(5 * i + 1, 7)
  ELSE IF i < 48 THEN And16(3 * i + 5, 15)
  ELSE And16(7 * i, 15)

\* message-word index g of round i: i, (5*i + 1) & 15u, (3*i + 5) & 15u,
\* (7*i) & 15u
MsgIndex(i) ==
  IF i < 16 THEN i
  ELSE IF i < 32 THEN And16(5 * i + 1, 15)
  ELSE IF i < 48 THEN And16(3 * i + 5, 15)
  ELSE And16(7 * i, 15)

\* mixing function f of round i
Mix(i, B, C, D) ==
  IF i < 16 THEN F(B, C, D)
  ELSE IF i < 32 THEN G(B, C, D)
  ELSE IF i < 48 THEN H(B, C, D)
  ELSE I(B, C, D)

\* one pass of the round loop body on r = <<A, B, C, D>>:
\*   tmp = D; D = C; C = B; sum = A + f + K[i] + M[g];
\*   B = B + rotl(sum, S[i]); A = tmp;
Round(r, M, i) ==
  << r[4],
     Add32(r[2],
           rotl(Add32(Add32(Add32(r[1], Mix(i, r[2], r[3], r[4])), K[i + 1]),
                      M[MsgIndex(i) + 1]),
                S[i + 1])),
     r[2],
     r[3] >>

RECURSIVE Rounds(_, _, _)
\* for (i = 0; i < 64; ++i) { ... }
\* (the test on r makes TLC finish round i - 1 before it starts round i)
Rounds(r, M, i) ==
  IF i = 64 \/ Len(r) # 4 THEN r ELSE Rounds(Round(r, M, i), M, i + 1)

\* M[i] = read_le32(block + 4*i)
MsgWords(block) == [i \in 1..16 |-> read_le32(block, 4 * (i - 1))]

\* a_ += A; b_ += B; c_ += C; d_ += D;
FeedForward(m, r) ==
  [m EXCEPT !.a_ = Add32(@, r[1]), !.b_ = Add32(@, r[2]),
            !.c_ = Add32(@, r[3]), !.d_ = Add32(@, r[4])]

\* transform(block) on engine m
transform(m, block) ==
  FeedForward(m, Rounds(<<m.a_, m.b_, m.c_, m.d_>>, MsgWords(block), 0))

(***************************************************************************)
(* The engine: a record of the members of class MD5                        *)
(***************************************************************************)
\* variant: the pending length survives a reset
reset_keepsPending(m) ==
  [m EXCEPT !.a_ = <<\h6745, \h2301>>,
            !.b_ = <<\hefcd, \hab89>>,
            !.c_ = <<\h98ba, \hdcfe>>,
            !.d_ = <<\h1032, \h5476>>,
            !.total_len_ = Zero64]

\* variant: total_len_ is not cleared
reset_keepsTotal(m) ==
  [m EXCEPT !.a_ = <<\h6745, \h2301>>,
            !.b_ = <<\hefcd, \hab89>>,
            !.c_ = <<\h98ba, \hdcfe>>,
            !.d_ = <<\h1032, \h5476>>,
            !.buffer_len_ = 0]

reset(m) ==
  [m EXCEPT !.a_ = <<\h6745, \h2301>>,
            !.b_ = <<\hefcd, \hab89>>,
            !.c_ = <<\h98ba, \hdcfe>>,
            !.d_ = <<\h1032, \h5476>>,
            !.total_len_ = Zero64,
            !.buffer_len_ = 0]

\* memcpy(dst + at, src + from, n) on byte arrays
memcpy(dst, at, src, from, n) ==
  [i \in 1..Len(dst) |->
     IF i > at /\ i <= at + n THEN src[from + (i - at)] ELSE dst[i]]

\* the 64 bytes at p
BlockAt(data, p) == [i \in 1..64 |-> data[p + i]]

\* variant: the call does not count its bytes in total_len_
Enter_noCount(m, data) ==
  [m |-> m, p |-> 0, len |-> Len(data), blocks |-> <<>>]

\* An update call in progress: the engine m, the read offset p into data,
\* the bytes left len, and the blocks given to transform so far.
\* On entry: total_len_ += len
Enter(m, data) ==
  [m      |-> [m EXCEPT !.total_len_ = Add64(@, Len(data))],
   p      |-> 0,
   len    |-> Len(data),
   blocks |-> <<>>]

\* variant: to_copy is len, whatever room buffer_ has left
ToCopy_unclamped(fr) == fr.len

\* to_copy = (len < (64 - buffer_len_)) ? len : (64 - buffer_len_)
ToCopy(fr) ==
  IF fr.len < 64 - fr.m.buffer_len_ THEN fr.len ELSE 64 - fr.m.buffer_len_

\* memcpy(buffer_ + buffer_len_, p, to_copy); buffer_len_ += to_copy;
\* p += to_copy; len -= to_copy;
TopUp(fr, data) ==
  [fr EXCEPT !.m = [fr.m EXCEPT
                      !.buffer_ = memcpy(fr.m.buffer_, fr.m.buffer_len_,
                                         data, fr.p, ToCopy(fr)),
                      !.buffer_len_ = @ + ToCopy(fr)],
             !.p = @ + ToCopy(fr),
             !.len = @ - ToCopy(fr)]

\* variant: the buffer is compressed when full but not emptied
Flush_keepsFull(fr) ==
  IF fr.m.buffer_len_ = 64
  THEN [fr EXCEPT !.m = transform(fr.m, fr.m.buffer_),
                  !.blocks = Append(@, fr.m.buffer_)]
  ELSE fr

\* if (buffer_len_ == 64) { transform(buffer_); buffer_len_ = 0; }
Flush(fr) ==
  IF fr.m.buffer_len_ = 64
  THEN [fr EXCEPT !.m = [transform(fr.m, fr.m.buffer_) EXCEPT !.buffer_len_ = 0],
                  !.blocks = Append(@, fr.m.buffer_)]
  ELSE fr

\* variant: the read offset is not advanced past the bytes copied
FillBuffer_noAdvance(fr, data) ==
  IF fr.m.buffer_len_ > 0
  THEN Flush([TopUp(fr, data) EXCEPT !.p = fr.p])
  ELSE fr

\* if (buffer_len_ > 0) { ... }
FillBuffer(fr, data) ==
  IF fr.m.buffer_len_ > 0 THEN Flush(TopUp(fr, data)) ELSE fr

RECURSIVE FullChunks_strict(_, _)
\* variant: the loop stops when exactly 64 bytes are left
FullChunks_strict(fr, data) ==
  IF fr.len > 64
  THEN FullChunks_strict([m      |-> transform(fr.m, BlockAt(data, fr.p)),
                          p      |-> fr.p + 64,
                          len    |-> fr.len - 64,
                          blocks |-> Append(fr.blocks, BlockAt(data, fr.p))],
                         data)
  ELSE fr

RECURSIVE FullChunks(_, _)
\* while (len >= 64) { transform(p); p += 64; len -= 64; }
FullChunks(fr, data) ==
  IF fr.len >= 64
  THEN FullChunks([m      |-> transform(fr.m, BlockAt(data, fr.p)),
                   p      |-> fr.p + 64,
                   len    |-> fr.len - 64,
                   blocks |-> Append(fr.blocks, BlockAt(data, fr.p))], data)
  ELSE fr

\* variant: the remainder is stored without the test for len > 0
StoreRemainder_always(fr, data) ==
  [fr EXCEPT !.m = [fr.m EXCEPT
                      !.buffer_ = memcpy(fr.m.buffer_, 0, data, fr.p, fr.len),
                      !.buffer_len_ = fr.len]]

\* if (len > 0) { memcpy(buffer_, p, len); buffer_len_ = len; }
StoreRemainder(fr, data) ==
  IF fr.len > 0
  THEN [fr EXCEPT !.m = [fr.m EXCEPT
                           !.buffer_ = memcpy(fr.m.buffer_, 0, data, fr.p, fr.len),
                           !.buffer_len_ = fr.len]]
  ELSE fr

\* update(data, len) on engine m, as the call's final frame
update_call(m, data) ==
  StoreRemainder(FullChunks(FillBuffer(Enter(m, data), data), data), data)

\* the engine after update(data, len)
update(m, data) == update_call(m, data).m

\* bit_len = total_len_ * 8
bit_len(m) == Mul64(m.total_len_, 8)

\* need_zeroes of finalize, from cur_mod = buffer_len_ % 64
need_zeroes(cur_mod) ==
  IF cur_mod <= 56 THEN 56 - cur_mod ELSE 56 + 64 - cur_mod

\* pad[0..pad_len): 0x80, need_zeroes zero bytes, the 8 bytes of length
Padding(m, length) ==
  <<128>> \o [i \in 1..need_zeroes(m.buffer_len_ % 64) |-> 0]
          \o [i \in 1..8 |-> Byte64(length, i - 1)]

\* the digest read from the accumulators of engine m
ReadDigest(m) ==
  write_le32(m.a_) \o write_le32(m.b_) \o write_le32(m.c_) \o write_le32(m.d_)

\* The outcome of a finalize call that built pad and fed it in frame fr: the
\* padding, the blocks compressed, the engine at the point the digest is
\* read, the digest, and the engine on return.
Finish(padding, fr) ==
  [pad |-> padding, blocks |-> fr.blocks, atRead |-> fr.m,
   out |-> ReadDigest(fr.m), m |-> reset(fr.m)]

\* variant: bit_len is taken after the padding has been counted
finalize_call_lenAfterPad(m) ==
  Finish(Padding(m, Mul64(Add64(m.total_len_,
                                1 + need_zeroes(m.buffer_len_ % 64) + 8), 8)),
         update_call(m, Padding(m, Mul64(Add64(m.total_len_,
                                1 + need_zeroes(m.buffer_len_ % 64) + 8), 8))))

\* finalize() on engine m
finalize_call(m) ==
  Finish(Padding(m, bit_len(m)), update_call(m, Padding(m, bit_len(m))))

\* an engine as the constructor MD5() leaves it; the constructor does not
\* write buffer_, whose bytes are whatever `fill` the storage held
MD5(fill) ==
  reset([a_ |-> <<0, 0>>, b_ |-> <<0, 0>>, c_ |-> <<0, 0>>, d_ |-> <<0, 0>>,
         total_len_ |-> Zero64, buffer_ |-> [i \in 1..64 |-> fill],
         buffer_len_ |-> 0])

\* static digest(data, len): MD5 m; m.update(data, len); return m.finalize();
digest(data) == finalize_call(update(MD5(0), data)).out

\* static hex(d): a string as the sequence of its characters
hexd == <<"0", "1", "2", "3", "4", "5", "6", "7",
          "8", "9", "a", "b", "c", "d", "e", "f">>

\* variant: low nibble first
hex_lowNibbleFirst(d) ==
  [k \in 1..32 |->
     IF k % 2 = 1
     THEN hexd[And16(d[(k + 1) \div 2], 15) + 1]
     ELSE hexd[And16(d[k \div 2] \div 16, 15) + 1]]

hex(d) ==
  [k \in 1..32 |->
     IF k % 2 = 1
     THEN hexd[And16(d[(k + 1) \div 2] \div 16, 15) + 1]
     ELSE hexd[And16(d[k \div 2], 15) + 1]]

\* the vectors of the self-test main(): input s, expected hex string h
tv ==
  <<
    [s |-> <<>>,
     h |-> <<"d", "4", "1", "d", "8", "c", "d", "9", "8", "f", "0", "0", "b", "2", "0", "4", "e", "9", "8", "0", "0", "9", "9", "8", "e", "c", "f", "8", "4", "2", "7", "e">>],
    [s |-> <<97>>,
     h |-> <<"0", "c", "c", "1", "7", "5", "b", "9", "c", "0", "f", "1", "b", "6", "a", "8", "3", "1", "c", "3", "9", "9", "e", "2", "6", "9", "7", "7", "2", "6", "6", "1">>],
    [s |-> <<97, 98, 99>>,
     h |-> <<"9", "0", "0", "1", "5", "0", "9", "8", "3", "c", "d", "2", "4", "f", "b", "0", "d", "6", "9", "6", "3", "f", "7", "d", "2", "8", "e", "1", "7", "f", "7", "2">>],
    [s |-> <<109, 101, 115, 115, 97, 103, 101, 32, 100, 105, 103, 101, 115, 116>>,
     h |-> <<"f", "9", "6", "b", "6", "9", "7", "d", "7", "c", "b", "7", "9", "3", "8", "d", "5", "2", "5", "a", "2", "f", "3", "1", "a", "a", "f", "1", "6", "1", "d", "0">>],
    [s |-> <<97, 98, 99, 100, 101, 102, 103, 104, 105, 106, 107, 108, 109, 110, 111, 112, 113, 114, 115, 116, 117, 118, 119, 120, 121, 122>>,
     h |-> <<"c", "3", "f", "c", "d", "3", "d", "7", "6", "1", "9", "2", "e", "4", "0", "0", "7", "d", "f", "b", "4", "9", "6", "c", "c", "a", "6", "7", "e", "1", "3", "b">>],
    [s |-> <<65, 66, 67, 68, 69, 70, 71, 72, 73, 74, 75, 76, 77, 78, 79, 80, 81, 82, 83, 84, 85, 86, 87, 88, 89, 90, 97, 98, 99, 100, 101, 102, 103, 104, 105, 106, 107, 108, 109, 110, 111, 112, 113, 114, 115, 116, 117, 118, 119, 120, 121, 122, 48, 49, 50, 51, 52, 53, 54, 55, 56, 57>>,
     h |-> <<"d", "1", "7", "4", "a", "b", "9", "8", "d", "2", "7", "7", "d", "9", "f", "5", "a", "5", "6", "1", "1", "c", "2", "c", "9", "f", "4", "1", "9", "d", "9", "f">>],
    [s |-> <<49, 50, 51, 52, 53, 54, 55, 56, 57, 48, 49, 50, 51, 52, 53, 54, 55, 56, 57, 48, 49, 50, 51, 52, 53, 54, 55, 56, 57, 48, 49, 50, 51, 52, 53, 54, 55, 56, 57, 48, 49, 50, 51, 52, 53, 54, 55, 56, 57, 48, 49, 50, 51, 52, 53, 54, 55, 56, 57, 48, 49, 50, 51, 52, 53, 54, 55, 56, 57, 48, 49, 50, 51, 52, 53, 54, 55, 56, 57, 48>>,
     h |-> <<"5", "7", "e", "d", "f", "4", "a", "2", "2", "b", "e", "3", "c", "9", "5", "5", "a", "c", "4", "9", "d", "a", "2", "e", "2", "1", "0", "7", "b", "6", "7", "a">>]
  >>

(***************************************************************************)
(* Callers: one MD5 instance driven by reset, update and finalize calls    *)
(***************************************************************************)
\* most calls, and most update calls, made on the instance in one behaviour
MaxCalls == 4
MaxUpdates == 2

\* bytes i, i + 1, ... of a fixed pattern
Pat(n) == [i \in 1..n |-> (i * 7 + 3) % 256]

\* "bc": with "a", the vector "abc" in two pieces
StrBC == <<98, 99>>

\* the byte sequences a caller passes to update: "", "a" and the 62-character
\* string of the self-test, "bc", and patterns of 55 and 130 bytes
Chunks == {tv[1].s, tv[2].s, tv[6].s, StrBC, Pat(55), Pat(130)}

\* what the storage of a new instance may hold before the constructor runs
Uninit == {0, 255}

VARIABLES
  a_, b_, c_, d_, total_len_, buffer_, buffer_len_,   \* the members
  call,     \* the call that returned last: "MD5", "reset", "update", "finalize"
  out,      \* the digest it returned (<<>> for a call returning void)
  pad,      \* pad[0..pad_len) built by finalize, when call = "finalize"
  atRead,   \* the engine at the point finalize read the digest
  pieces,   \* the arguments of the update calls since the last reset/finalize
  msg,      \* the pieces of the computation finalize ended, when call = "finalize"
  blocks,   \* the blocks given to transform since the last reset/finalize,
            \* those of the last finalize included
  compressed, \* the blocks given to transform by the call that returned last
  calls,    \* calls made on the instance
  updates,  \* update calls made on the instance
  uses,     \* finalize calls made on the instance
  base,     \* total_len_ of the instance when the callers below take it over
  inst,     \* two further instances, inst[1] and inst[2], as records
  outs,     \* outs[i]: the digests inst[i] has returned, oldest first
  hist      \* hist[i]: the calls made on inst[i], its constructor first

members == <<a_, b_, c_, d_, total_len_, buffer_, buffer_len_>>
vars == <<a_, b_, c_, d_, total_len_, buffer_, buffer_len_,
          call, out, pad, atRead, pieces, msg, blocks, compressed,
          calls, updates, uses, base, inst, outs, hist>>

\* the variables the calls on the first instance leave alone
others == <<base, inst, outs, hist>>

\* the further instances
Instances == {1, 2}

\* what the storage of inst[i] held before its constructor ran
Storage == <<0, 255>>

\* the instance as a record
This ==
  [a_ |-> a_, b_ |-> b_, c_ |-> c_, d_ |-> d_, total_len_ |-> total_len_,
   buffer_ |-> buffer_, buffer_len_ |-> buffer_len_]

\* the members take the values of record m
Becomes(m) ==
  /\ a_' = m.a_ /\ b_' = m.b_ /\ c_' = m.c_ /\ d_' = m.d_
  /\ total_len_' = m.total_len_
  /\ buffer_' = m.buffer_ /\ buffer_len_' = m.buffer_len_

RECURSIVE Concat(_)
\* the pieces end to end
Concat(ps) == IF ps = <<>> THEN <<>> ELSE Head(ps) \o Concat(Tail(ps))

Init ==
  \E fill \in Uninit :
    /\ a_ = MD5(fill).a_ /\ b_ = MD5(fill).b_
    /\ c_ = MD5(fill).c_ /\ d_ = MD5(fill).d_
    /\ total_len_ = MD5(fill).total_len_
    /\ buffer_ = MD5(fill).buffer_ /\ buffer_len_ = MD5(fill).buffer_len_
    /\ call = "MD5" /\ out = <<>> /\ pad = <<>> /\ atRead = MD5(fill)
    /\ pieces = <<>> /\ msg = <<>> /\ blocks = <<>> /\ compressed = <<>>
    /\ calls = 0 /\ updates = 0 /\ uses = 0
    /\ base = Zero64
    /\ inst = [i \in Instances |-> MD5(Storage[i])]
    /\ outs = [i \in Instances |-> <<>>]
    /\ hist = [i \in Instances |-> <<[op |-> "MD5", data |-> <<Storage[i]>>]>>]

Reset ==
  /\ calls < MaxCalls
  /\ Becomes(reset(This))
  /\ call' = "reset" /\ out' = <<>> /\ pad' = <<>> /\ atRead' = reset(This)
  /\ pieces' = <<>> /\ msg' = <<>> /\ blocks' = <<>> /\ compressed' = <<>>
  /\ calls' = calls + 1 /\ updates' = updates /\ uses' = uses
  /\ UNCHANGED others

\* update(data) returning with frame fr
Updated(fr, data) ==
  /\ Becomes(fr.m)
  /\ atRead' = fr.m
  /\ pieces' = IF call = "finalize" THEN <<data>> ELSE Append(pieces, data)
  /\ blocks' = IF call = "finalize" THEN fr.blocks ELSE blocks \o fr.blocks
  /\ compressed' = fr.blocks
  /\ call' = "update" /\ out' = <<>> /\ pad' = <<>> /\ msg' = <<>>
  /\ calls' = calls + 1 /\ updates' = updates + 1 /\ uses' = uses
  /\ UNCHANGED others

Update ==
  /\ calls < MaxCalls /\ updates < MaxUpdates
  /\ \E data \in Chunks : Updated(update_call(This, data), data)

\* finalize() returning with outcome fc
Finalized(fc) ==
  /\ Becomes(fc.m)
  /\ out' = fc.out /\ pad' = fc.pad /\ atRead' = fc.atRead
  /\ blocks' = IF call = "finalize" THEN fc.blocks ELSE blocks \o fc.blocks
  /\ compressed' = fc.blocks
  /\ msg' = IF call = "finalize" THEN <<>> ELSE pieces
  /\ pieces' = <<>>
  /\ call' = "finalize"
  /\ calls' = calls + 1 /\ updates' = updates /\ uses' = uses + 1
  /\ UNCHANGED others

Finalize ==
  /\ calls < MaxCalls
  /\ Finalized(finalize_call(This))

Next == Reset \/ Update \/ Finalize

Spec == Init /\ [][Next]_vars

(***************************************************************************)
(* Callers of an instance that is far into a long computation: total_len_  *)
(* is a 64-bit counter, and the same calls are made from where it is close *)
(* to 2^32, to 2^61 (where total_len_ * 8 leaves 64 bits) and to 2^64      *)
(***************************************************************************)
\* total_len_ as 8 bytes, low byte first: 2^32 - 1, 2^61 and 2^64 - 2
LongCounts ==
  {<<255, 255, 255, 255, 0, 0, 0, 0>>,
   <<0, 0, 0, 0, 0, 0, 0, 32>>,
   <<254, 255, 255, 255, 255, 255, 255, 255>>}

\* An engine whose update calls have counted n bytes: buffer_len_ is what
\* update leaves for that count, the pending bytes are from the pattern, and
\* the accumulators, which the counter and the length bytes of the padding
\* do not depend on, are given their initial values.
LongEngine(n) ==
  [MD5(0) EXCEPT !.total_len_ = n,
                 !.buffer_ = Pat(64),
                 !.buffer_len_ = n[1] % 64]

LongInit ==
  \E n \in LongCounts :
    /\ a_ = LongEngine(n).a_ /\ b_ = LongEngine(n).b_
    /\ c_ = LongEngine(n).c_ /\ d_ = LongEngine(n).d_
    /\ total_len_ = n
    /\ buffer_ = LongEngine(n).buffer_
    /\ buffer_len_ = LongEngine(n).buffer_len_
    /\ call = "update" /\ out = <<>> /\ pad = <<>> /\ atRead = LongEngine(n)
    /\ pieces = <<>> /\ msg = <<>> /\ blocks = <<>> /\ compressed = <<>>
    /\ calls = 1 /\ updates = 1 /\ uses = 0
    /\ base = n
    /\ inst = [i \in Instances |-> MD5(Storage[i])]
    /\ outs = [i \in Instances |-> <<>>]
    /\ hist = [i \in Instances |-> <<[op |-> "MD5", data |-> <<Storage[i]>>]>>]

SpecLong == LongInit /\ [][Next]_vars

(***************************************************************************)
(* Callers of two instances: the calls on inst[1] and on inst[2] are made  *)
(* in any order                                                            *)
(***************************************************************************)
\* most calls made on the two instances together in one behaviour
MaxTwoCalls == 3

\* the byte sequences these callers pass to update: "a" and the 62-character
\* string of the self-test
TwoChunks == {tv[2].s, tv[6].s}

\* calls made on inst[1] and inst[2] so far, the constructors not counted
TwoCalls == Len(hist[1]) + Len(hist[2]) - 2

\* variant: buffer_ is one array that all instances share
CalledOn_sharedBuffer(i, name, data, m, o) ==
  /\ inst' = [j \in Instances |->
                IF j = i THEN m ELSE [inst[j] EXCEPT !.buffer_ = m.buffer_]]
  /\ outs' = [outs EXCEPT ![i] = o]
  /\ hist' = [hist EXCEPT ![i] = Append(@, [op |-> name, data |-> data])]
  /\ UNCHANGED <<a_, b_, c_, d_, total_len_, buffer_, buffer_len_,
                 call, out, pad, atRead, pieces, msg, blocks, compressed,
                 calls, updates, uses, base>>

\* a call `name` with argument data on inst[i] leaves it as m and returns o;
\* the members an instance holds (md5.cpp:177-181) are all it writes
CalledOn(i, name, data, m, o) ==
  /\ inst' = [inst EXCEPT ![i] = m]
  /\ outs' = [outs EXCEPT ![i] = o]
  /\ hist' = [hist EXCEPT ![i] = Append(@, [op |-> name, data |-> data])]
  /\ UNCHANGED <<a_, b_, c_, d_, total_len_, buffer_, buffer_len_,
                 call, out, pad, atRead, pieces, msg, blocks, compressed,
                 calls, updates, uses, base>>

\* inst[i].reset()
ResetOn(i) ==
  /\ TwoCalls < MaxTwoCalls
  /\ CalledOn(i, "reset", <<>>, reset(inst[i]), outs[i])

\* inst[i].update(data, len)
UpdateOn(i) ==
  /\ TwoCalls < MaxTwoCalls
  /\ \E data \in TwoChunks :
       CalledOn(i, "update", data, update(inst[i], data), outs[i])

\* inst[i].finalize() returning with outcome fc
FinalizedOn(i, fc) ==
  CalledOn(i, "finalize", <<>>, fc.m, Append(outs[i], fc.out))

\* inst[i].finalize()
FinalizeOn(i) ==
  /\ TwoCalls < MaxTwoCalls
  /\ FinalizedOn(i, finalize_call(inst[i]))

NextTwo == \E i \in Instances : ResetOn(i) \/ UpdateOn(i) \/ FinalizeOn(i)

SpecTwo == Init /\ [][NextTwo]_vars

TypeOK ==
  /\ buffer_len_ \in 0..64
  /\ Len(buffer_) = 64
  /\ call \in {"MD5", "reset", "update", "finalize"}

(***************************************************************************)
(* Properties                                                              *)
(***************************************************************************)
\* the message the last finalize ended, and the input fed since the last
\* reset or finalize
Message == Concat(msg)
Fed     == Concat(pieces)

RECURSIVE ByteOf(_, _)
\* byte i of the number n, least significant first
ByteOf(n, i) == IF i = 0 THEN n % 256 ELSE ByteOf(n \div 256, i - 1)

\* the 8-byte little-endian encoding of n
Le64(n) == [i \in 1..8 |-> ByteOf(n, i - 1)]

\* the value of a hexadecimal digit
HexValue ==
  [c \in {"0", "1", "2", "3", "4", "5", "6", "7",
          "8", "9", "a", "b", "c", "d", "e", "f"} |->
     CASE c = "0" -> 0  [] c = "1" -> 1  [] c = "2" -> 2  [] c = "3" -> 3
       [] c = "4" -> 4  [] c = "5" -> 5  [] c = "6" -> 6  [] c = "7" -> 7
       [] c = "8" -> 8  [] c = "9" -> 9  [] c = "a" -> 10 [] c = "b" -> 11
       [] c = "c" -> 12 [] c = "d" -> 13 [] c = "e" -> 14 [] c = "f" -> 15]

\* C1: chunking invariance.  Whatever pieces the caller fed to a freshly
\* reset engine through successive update calls, finalize returns the digest
\* that the one-shot digest(x) (a new engine, a single update(x), finalize)
\* returns for their concatenation x.
ChunkingInvariance == call = "finalize" => out = digest(Message)

\* a message fed as "a" then 130 bytes: the second update tops up the
\* buffer, compresses a block from the input directly and stores a remainder
ChunkingWitness ==
  /\ call = "finalize" /\ Len(msg) = 2
  /\ Len(msg[1]) = 1 /\ Len(msg[2]) = 130
  /\ out = digest(Message)

\* C2: for each non-empty vector of the RFC 1321 suite, hex(digest(input))
\* is the standard MD5 value listed for it.
KnownVectors ==
  call = "finalize" =>
    \A k \in 2..Len(tv) : Message = tv[k].s => hex(out) = tv[k].h

\* C3: finalize on a freshly reset engine that has absorbed no byte returns
\* the digest whose hex rendering is d41d8cd98f00b204e9800998ecf8427e.
EmptyDigest ==
  call = "finalize" /\ Message = <<>> =>
    /\ Len(out) = 16
    /\ hex(out) = <<"d", "4", "1", "d", "8", "c", "d", "9",
                    "8", "f", "0", "0", "b", "2", "0", "4",
                    "e", "9", "8", "0", "0", "9", "9", "8",
                    "e", "c", "f", "8", "4", "2", "7", "e">>

\* the empty message finalized on an instance that has already produced the
\* digest of a non-empty one
EmptyDigestWitness ==
  /\ call = "finalize" /\ Message = <<>> /\ uses = 2 /\ updates >= 1
  /\ hex(out) = tv[1].h

\* the number z of zero bytes of the padding rule for n message bytes
PadZeroes(n) == CHOOSE z \in 0..63 : (n + 1 + z) % 64 = 56

\* C4: for n bytes absorbed, the padding finalize builds is one 0x80 byte,
\* then the least z in 0..63 zero bytes with (n + 1 + z) mod 64 = 56, then
\* the 8-byte little-endian encoding of 8 * n.
PaddingRule ==
  call = "finalize" =>
    pad = <<128>> \o [i \in 1..PadZeroes(Len(Message)) |-> 0]
                  \o Le64(8 * Len(Message))

\* C5: message plus padding total a multiple of 64 bytes, so when finalize
\* reads the digest every padded byte has gone through the compression step
\* and the pending buffer holds 0 bytes.
PaddedLengthMultipleOf64 ==
  call = "finalize" =>
    /\ (Len(Message) + Len(pad)) % 64 = 0
    /\ atRead.buffer_len_ = 0
    /\ Concat(blocks) = Message \o pad

\* C6: reuse correctness.  After finalize returns the engine is in the
\* initial state (the four accumulator constants, total_length 0, pending
\* empty), and a digest computed on an instance that has been finalized
\* before equals the one a freshly constructed engine gives.
ReuseCorrectness ==
  call = "finalize" =>
    /\ a_ = <<\h6745, \h2301>> /\ b_ = <<\hefcd, \hab89>>
    /\ c_ = <<\h98ba, \hdcfe>> /\ d_ = <<\h1032, \h5476>>
    /\ total_len_ = <<0, 0, 0, 0, 0, 0, 0, 0>>
    /\ buffer_len_ = 0
    /\ uses >= 2 => out = finalize_call(update(MD5(0), Message)).out

\* a second non-empty message finalized on the same instance
ReuseWitness ==
  /\ call = "finalize" /\ uses = 2 /\ updates = 2 /\ Len(Message) >= 55
  /\ buffer_len_ = 0

\* C7: between calls the pending length is in 0..63, never 64.
PendingBelow64 == buffer_len_ \in 0..63

\* 62 bytes pending, then an update of 2 bytes: the fill reaches 64, the
\* block is compressed and the buffer is empty
PendingWitness ==
  /\ call = "update" /\ Len(pieces) = 2
  /\ Len(pieces[1]) = 62 /\ Len(pieces[2]) = 2
  /\ Len(blocks) = 1 /\ buffer_len_ = 0

\* C8: total_length counts raw input bytes only: between calls it is the sum
\* of the lengths of the update calls since the last reset or finalize, and
\* the bit length finalize encodes in the padding is 8 times the length of
\* the message, padding bytes not counted.
TotalCountsInput ==
  /\ total_len_ = Le64(Len(Fed))
  /\ call = "finalize" =>
       /\ Len(pad) >= 9
       /\ SubSeq(pad, Len(pad) - 7, Len(pad)) = Le64(8 * Len(Message))

\* a message of more than one block, finalized
TotalWitness ==
  /\ call = "finalize" /\ Len(Message) > 64 /\ Len(msg) = 2
  /\ total_len_ = Le64(0)

\* C9: the digest is 16 bytes, the little-endian encodings of A, B, C, D in
\* that order, the accumulators being those reached after the message and
\* the padding have been absorbed and before the engine is reset.
DigestIsAccumulators ==
  call = "finalize" =>
    LET acc == <<atRead.a_, atRead.b_, atRead.c_, atRead.d_>>
        m   == update(update(MD5(0), Message), pad)
    IN  /\ Len(out) = 16
        /\ \A k \in 0..3 :
             /\ out[4 * k + 1] + 256 * out[4 * k + 2] = acc[k + 1][2]
             /\ out[4 * k + 3] + 256 * out[4 * k + 4] = acc[k + 1][1]
        /\ acc = <<m.a_, m.b_, m.c_, m.d_>>

\* a digest read from accumulators that the reset then overwrote
DigestWitness ==
  /\ call = "finalize" /\ Len(out) = 16 /\ Message # <<>>
  /\ atRead.a_ # a_ /\ atRead.d_ # d_
  /\ out[1] # out[4]

\* C10: hex(d) is 32 characters of [0-9a-f], characters 2i and 2i+1 being
\* the high and low nibble of byte i, and decoding it two characters per
\* byte gives d back.
HexRoundTrip ==
  call = "finalize" =>
    LET h == hex(out)
    IN  /\ Len(h) = 32
        /\ \A k \in 1..32 : h[k] \in DOMAIN HexValue
        /\ \A i \in 0..15 :
             /\ HexValue[h[2 * i + 1]] = out[i + 1] \div 16
             /\ HexValue[h[2 * i + 2]] = out[i + 1] % 16
        /\ [i \in 1..16 |-> 16 * HexValue[h[2 * i - 1]] + HexValue[h[2 * i]]]
             = out

\* a digest with a byte whose nibbles differ and use a letter digit
HexWitness ==
  /\ call = "finalize"
  /\ \E i \in 1..16 : out[i] \div 16 >= 10 /\ out[i] % 16 < 10
  /\ Len(hex(out)) = 32
\* an instance and the digests it has returned, after one more call c
Returned(e, fc) == [m |-> fc.m, outs |-> Append(e.outs, fc.out)]

After(e, c) ==
  IF c.op = "MD5" THEN [m |-> MD5(c.data[1]), outs |-> <<>>]
  ELSE IF c.op = "reset" THEN [m |-> reset(e.m), outs |-> e.outs]
  ELSE IF c.op = "update" THEN [m |-> update(e.m, c.data), outs |-> e.outs]
  ELSE Returned(e, finalize_call(e.m))

RECURSIVE Alone(_, _)
\* an instance on which the calls cs are made one after the other, alone
Alone(e, cs) == IF cs = <<>> THEN e ELSE Alone(After(e, Head(cs)), Tail(cs))

\* C11: however the calls on two instances are interleaved, each instance's
\* members and the digests it returned are those of its own calls run alone
IndependentInstances ==
  \A i \in Instances :
    /\ inst[i] = Alone([m |-> <<>>, outs |-> <<>>], hist[i]).m
    /\ outs[i] = Alone([m |-> <<>>, outs |-> <<>>], hist[i]).outs

\* calls on both instances interleaved: inst[1] holds a pending byte of a
\* computation inst[2]'s finalize came in between of
IndependentWitness ==
  /\ Len(hist[1]) = 3 /\ Len(hist[2]) = 2
  /\ hist[1][2].op = "update" /\ hist[1][3].op = "update"
  /\ hist[2][2].op = "finalize"
  /\ inst[1].buffer_len_ = 63 /\ Len(outs[2]) = 1

\* C12: feeding the padding compresses once when 0..55 bytes are pending and
\* twice when 56..63 are, and a message of n bytes is compressed in
\* (n + 1 + z + 8) / 64 steps in all, z the zero count of the padding rule
FinalBlockCount ==
  call = "finalize" =>
    /\ Len(compressed) = (IF Len(Message) % 64 <= 55 THEN 1 ELSE 2)
    /\ Len(blocks) = (Len(Message) + 1 + PadZeroes(Len(Message)) + 8) \div 64

\* the 64-byte slices of a byte stream, in order
Slices(stream) ==
  [k \in 1..(Len(stream) \div 64) |-> SubSeq(stream, 64 * k - 63, 64 * k)]

\* the bytes of a stream after its last full 64-byte slice
Rest(stream) ==
  SubSeq(stream, Len(stream) - (Len(stream) % 64) + 1, Len(stream))

\* C13: update with p bytes pending and len bytes of input compresses
\* floor((p + len) / 64) blocks, the 64-byte slices of pending-then-input in
\* order, and leaves the (p + len) mod 64 bytes after them pending
UpdateCompresses ==
  [][call' = "update" =>
       LET stream == SubSeq(buffer_, 1, buffer_len_) \o pieces'[Len(pieces')]
       IN  /\ Len(compressed') = Len(stream) \div 64
           /\ buffer_len_' = Len(stream) % 64
           /\ compressed' = Slices(stream)
           /\ SubSeq(buffer_', 1, buffer_len_') = Rest(stream)]_vars

\* an update that topped up one pending byte, compressed the buffer and one
\* slice of its input directly, and stored a remainder of three bytes
UpdateWitness ==
  /\ call = "update" /\ Len(pieces) = 2 /\ Len(pieces[1]) = 1
  /\ Len(compressed) = 2 /\ buffer_len_ = 3

\* messages hashed after a reset, and their digests on a new engine
Probes == {tv[1].s, tv[2].s}
ProbeDigest == [x \in Probes |-> digest(x)]

\* C14: reset, whatever was absorbed before it, leaves the initial
\* accumulators, a zero total_len_ and nothing pending, and a message hashed
\* from there gets the digest it gets on a new engine
ResetDiscards ==
  call = "reset" =>
    /\ a_ = <<\h6745, \h2301>> /\ b_ = <<\hefcd, \hab89>>
    /\ c_ = <<\h98ba, \hdcfe>> /\ d_ = <<\h1032, \h5476>>
    /\ total_len_ = Zero64
    /\ buffer_len_ = 0
    /\ \A x \in Probes : finalize_call(update(This, x)).out = ProbeDigest[x]

\* a reset in the middle of a computation: the 55 bytes that were pending
\* are still in buffer_
ResetWitness ==
  /\ call = "reset" /\ updates >= 1
  /\ SubSeq(buffer_, 1, 55) = Pat(55)

\* C15: an update with no bytes changes none of the members (accumulators,
\* total_len_, the content of buffer_ and buffer_len_) and compresses nothing
EmptyUpdateNoOp ==
  [][(call' = "update" /\ pieces'[Len(pieces')] = <<>>) =>
       /\ members' = members
       /\ compressed' = <<>>]_vars

\* an update with no bytes made while 55 bytes were pending
EmptyUpdateWitness ==
  /\ call = "update" /\ Len(pieces) = 2
  /\ pieces[1] = Pat(55) /\ pieces[2] = <<>>
  /\ buffer_len_ = 55

\* C16: between calls buffer_len_ is total_len_ mod 64, and the blocks given
\* to transform since the last reset, followed by the pending bytes, are the
\* bytes fed in the order they were fed; so the padding finalize builds from
\* buffer_len_ is the one it would build from total_len_ mod 64
PendingIsTail ==
  /\ buffer_len_ = total_len_[1] % 64
  /\ call # "finalize" =>
       Concat(blocks) \o SubSeq(buffer_, 1, buffer_len_) = Fed
  /\ call = "finalize" =>
       Len(pad) = 1 + need_zeroes(Len(Message) % 64) + 8

\* two updates that left four blocks compressed and four bytes pending
PendingIsTailWitness ==
  /\ call = "update" /\ Len(pieces) = 2 /\ Len(blocks) = 4
  /\ buffer_len_ = 4

\* update(data) on engine m, which leaves `left` bytes pending, keeps its two
\* copies inside buffer_[0..64): the top-up ends at buffer_len_ + to_copy <=
\* 64; input is left after it only when buffer_ was empty or is now full, and
\* so is compressed and emptied; and the remainder stored is below 64 bytes
CopiesInBounds(m, data, left) ==
  LET fr1 == IF m.buffer_len_ > 0 THEN TopUp(Enter(m, data), data)
                                  ELSE Enter(m, data)
  IN  /\ m.buffer_len_ + fr1.p <= 64
      /\ fr1.m.buffer_len_ <= 64
      /\ fr1.len > 0 => fr1.m.buffer_len_ \in {0, 64}
      /\ fr1.len % 64 > 0 => left = fr1.len % 64
      /\ left <= 63

\* C17: no call writes outside buffer_[0..64) or pad[0..128): update's copies
\* stay inside buffer_, finalize's padding is at most 72 bytes for every
\* pending length, and so do the copies of the update call that feeds it
WritesInBounds ==
  [][/\ call' = "update" =>
          CopiesInBounds(This, pieces'[Len(pieces')], buffer_len_')
     /\ call' = "finalize" =>
          /\ Len(pad') <= 72 /\ Len(pad') <= 128
          /\ \A cur_mod \in 0..63 : 1 + need_zeroes(cur_mod) + 8 <= 72
          /\ CopiesInBounds(This, pad', atRead'.buffer_len_)]_vars

\* a finalize with 57 bytes pending, whose padding is the longest: 72 bytes
WritesInBoundsWitness ==
  call = "finalize" /\ Len(Message) = 57 /\ Len(pad) = 72

\* the 16-bit limbs of a 64-bit count given as bytes, low limb first
Limbs(x) == [j \in 1..4 |-> x[2 * j - 1] + 256 * x[2 * j]]

\* x + n modulo 2^64 on limbs, for n below 2^16
PlusLimbs(l, n) ==
  LET s1 == l[1] + n
      s2 == l[2] + (s1 \div 65536)
      s3 == l[3] + (s2 \div 65536)
      s4 == l[4] + (s3 \div 65536)
  IN  <<s1 % 65536, s2 % 65536, s3 % 65536, s4 % 65536>>

\* the count total_len_ holds n bytes after the callers took the instance over
CountAfter(n) == PlusLimbs(Limbs(base), n)

\* byte i of (8 * t) modulo 2^64, t given as limbs: the low five bits of
\* byte i of t, above the high three bits of byte i - 1
ByteOfLimbs(l, i) ==
  IF i % 2 = 0 THEN l[(i \div 2) + 1] % 256 ELSE l[(i \div 2) + 1] \div 256

BitLenByte(l, i) ==
  ((ByteOfLimbs(l, i) * 8) % 256)
    + (IF i = 0 THEN 0 ELSE ByteOfLimbs(l, i - 1) \div 32)

\* C18: total_len_ counts the bytes modulo 2^64, and the last 8 bytes of the
\* padding are total_len_ * 8 modulo 2^64, low byte first: byte i is
\* (bit_len >> 8i) mod 256
LengthBytesWrap ==
  /\ calls = updates => Limbs(total_len_) = CountAfter(Len(Fed))
  /\ (call = "finalize" /\ calls = updates + 1) =>
       \A i \in 0..7 :
         pad[Len(pad) - 7 + i] = BitLenByte(CountAfter(Len(Message)), i)

\* a finalize after 2^64 - 2 + 130 bytes: the count has wrapped to 128 and
\* the length bytes say 1024 bits; and one after 2^61 + 1 bytes, whose bit
\* count has wrapped to 8
LengthBytesWitness ==
  /\ call = "finalize" /\ calls = updates + 1
  /\ \/ base[1] = 254 /\ Len(Message) = 130 /\ pad[Len(pad) - 6] = 4
     \/ base[8] = 32 /\ Len(Message) = 1 /\ pad[Len(pad) - 7] = 8

\* C19: the message-word index of round i is i, (5i + 1) mod 16,
\* (3i + 5) mod 16 and 7i mod 16 in the four groups of 16 rounds, and in each
\* group the indices of its rounds are the sixteen words 0..15, each once
\* (stated of the rounds of the blocks the last call compressed)
WordIndexPermutes ==
  compressed # <<>> =>
    /\ \A i \in 0..15  : MsgIndex(i) = i
    /\ \A i \in 16..31 : MsgIndex(i) = (5 * i + 1) % 16
    /\ \A i \in 32..47 : MsgIndex(i) = (3 * i + 5) % 16
    /\ \A i \in 48..63 : MsgIndex(i) = (7 * i) % 16
    /\ \A grp \in 0..3 :
         {MsgIndex(i) : i \in (16 * grp)..(16 * grp + 15)} = 0..15

\* a finalize that ran the 64 rounds twice
WordIndexWitness ==
  call = "finalize" /\ Len(compressed) = 2 /\ MsgIndex(63) = 9
====
